---- MODULE Spec2Model ----
(***************************************************************************)
(* Turkish diacritics validator (hooks/turkish-check.py).                  *)
(*                                                                         *)
(* A text is a sequence of characters, each a string; a word is a text     *)
(* made of letters.  The Turkish letters are written with a tilde after    *)
(* their ASCII fold: "c~" is c-cedilla, "g~" soft g, "i~" dotless i, "I~"  *)
(* dotted capital I, "o~" and "u~" the umlauts, "s~" s-cedilla.  A Python  *)
(* dict is a sequence of <<key, value>> pairs in insertion order; a Python *)
(* set is a TLA+ set, and iterating over it takes its elements in an       *)
(* arbitrary order.                                                        *)
(***************************************************************************)
EXTENDS Integers, Sequences, FiniteSets, TLC

VARIABLES
    payload,          \* what json.loads(sys.stdin.read()) meets
    file_state,       \* the target file: "missing", "unreadable", "readable"
    content,          \* the target file's text
    dict_files,       \* whitelist.dic, ambiguous-lookup.tsv, ambiguous-skip.dic
    oracle1,          \* what hunspell -a did: not called yet, failed, or its output
    oracle2,          \* what hunspell -l did: not called yet, failed, or its output
    pc,               \* position in main()
    exit_code,        \* -1 while running; 0, 2 (sys.exit) or 1 (uncaught exception)
    prose,
    whitelist,
    amb_lookup,
    amb_skip,
    word_locations,
    misspellings,
    errors,
    seen_lower,
    layer2_candidates,
    variant_to_word,
    valid_variants,
    unvisited,        \* what "for v in valid_variants" has yet to visit
    word_valid,
    sorted_words,     \* sorted(unique_words), the list the last loop runs over
    idx,              \* index of the running loop
    layer3_count,
    calls,            \* the external spell checker invocations so far
    run,              \* 1 for the first invocation of the hook, 2 for the second
    first_errors,     \* the findings of the first invocation
    stderr,           \* the report lines written to sys.stderr
    fn                \* argument and result of a function applied on its own

vars == <<payload, file_state, content, dict_files, oracle1, oracle2, pc,
          exit_code, prose, whitelist, amb_lookup, amb_skip, word_locations,
          misspellings, errors, seen_lower, layer2_candidates,
          variant_to_word, valid_variants, unvisited, word_valid,
          sorted_words, idx, layer3_count, calls, run, first_errors, stderr, fn>>

-----------------------------------------------------------------------------
(* Characters *)

NL == "\n"

\* the backtick
BT == "bt~"

AsciiLowerSeq ==
    <<"a", "b", "c", "d", "e", "f", "g", "h", "i", "j", "k", "l", "m",
      "n", "o", "p", "q", "r", "s", "t", "u", "v", "w", "x", "y", "z">>

AsciiUpperSeq ==
    <<"A", "B", "C", "D", "E", "F", "G", "H", "I", "J", "K", "L", "M",
      "N", "O", "P", "Q", "R", "S", "T", "U", "V", "W", "X", "Y", "Z">>

Range(s) == {s[k] : k \in DOMAIN s}

\* the only element of a set of one
Only(S) == CHOOSE x \in S : TRUE

\* A loop of the code: Step is one turn on the loop's state, applied from st
\* until Done holds.  The turns are taken sixteen at a time, each state
\* computed before the next turn begins.
Iterate(Step(_), Done(_), st) ==
    LET Turn(t) == IF Done(t) THEN t ELSE Step(t)
        Turn2(t) == Only({Turn(u) : u \in {Turn(t)}})
        Turn4(t) == Only({Turn2(u) : u \in {Turn2(t)}})
        Turn8(t) == Only({Turn4(u) : u \in {Turn4(t)}})
        Turn16(t) == Only({Turn8(u) : u \in {Turn8(t)}})
        RECURSIVE Run(_)
        Run(t) == IF Done(t) THEN t ELSE Only({Run(u) : u \in {Turn16(t)}})
    IN Only({Run(t) : t \in {st}})

\* for k in 1..n: acc = Body(k, acc)
Loop(n, Body(_, _), acc) ==
    LET Step(st) == <<st[1] + 1, Body(st[1], st[2])>>
        Done(st) == st[1] > n
    IN Iterate(Step, Done, <<1, acc>>)[2]

IndexIn(s, c) == CHOOSE k \in DOMAIN s : s[k] = c

IsLowerAscii(c) == c \in Range(AsciiLowerSeq)

IsUpperAscii(c) == c \in Range(AsciiUpperSeq)

IsAsciiLetter(c) == IsLowerAscii(c) \/ IsUpperAscii(c)

IsDigit(c) == c \in {"0", "1", "2", "3", "4", "5", "6", "7", "8", "9"}

DIACRITICS_MAP ==
    ("c~" :> "c") @@ ("C~" :> "C") @@ ("g~" :> "g") @@ ("G~" :> "G") @@
    ("i~" :> "i") @@ ("I~" :> "I") @@ ("o~" :> "o") @@ ("O~" :> "O") @@
    ("s~" :> "s") @@ ("S~" :> "S") @@ ("u~" :> "u") @@ ("U~" :> "U")

SWAP_MAP ==
    ("c" :> <<"c~">>) @@ ("g" :> <<"g~">>) @@ ("i" :> <<"i~">>) @@
    ("o" :> <<"o~">>) @@ ("s" :> <<"s~">>) @@ ("u" :> <<"u~">>) @@
    ("C" :> <<"C~">>) @@ ("G" :> <<"G~">>) @@ ("I" :> <<"I~">>) @@
    ("O" :> <<"O~">>) @@ ("S" :> <<"S~">>) @@ ("U" :> <<"U~">>)

\* the class [a-zA-Z] plus the twelve Turkish letters
IsWordLetter(c) == IsAsciiLetter(c) \/ c \in DOMAIN DIACRITICS_MAP

\* \w of a str pattern: letters, digits and the underscore
IsWordChar(c) == IsWordLetter(c) \/ IsDigit(c) \/ c = "_"

\* \s
IsSpace(c) == c \in {" ", NL, "\t"}

\* str.lower() of one character: a sequence, because the dotted capital I
\* lowers to "i" followed by the combining dot above (written "dot~").
LowerChar(c) ==
    CASE IsUpperAscii(c) -> <<AsciiLowerSeq[IndexIn(AsciiUpperSeq, c)]>>
      [] c = "C~" -> <<"c~">>
      [] c = "G~" -> <<"g~">>
      [] c = "I~" -> <<"i", "dot~">>
      [] c = "O~" -> <<"o~">>
      [] c = "S~" -> <<"s~">>
      [] c = "U~" -> <<"u~">>
      [] OTHER -> <<c>>

ToLower(s) ==
    LET Body(k, out) == out \o LowerChar(s[k])
    IN Loop(Len(s), Body, <<>>)

\* ord(c), the order sorted() compares strings by
Ord(c) ==
    CASE IsUpperAscii(c) -> 64 + IndexIn(AsciiUpperSeq, c)
      [] IsLowerAscii(c) -> 96 + IndexIn(AsciiLowerSeq, c)
      [] IsDigit(c) -> 48 + IndexIn(<<"0", "1", "2", "3", "4", "5", "6", "7", "8", "9">>, c) - 1
      [] c = NL -> 10
      [] c = "\t" -> 9
      [] c = " " -> 32
      [] c = "_" -> 95
      [] c = "C~" -> 199
      [] c = "O~" -> 214
      [] c = "U~" -> 220
      [] c = "c~" -> 231
      [] c = "o~" -> 246
      [] c = "u~" -> 252
      [] c = "G~" -> 286
      [] c = "g~" -> 287
      [] c = "I~" -> 304
      [] c = "i~" -> 305
      [] c = "S~" -> 350
      [] c = "s~" -> 351
      [] c = "dot~" -> 775
      [] OTHER -> 33

\* a < b for two strings, as Python compares them
RECURSIVE StrLess(_, _)
StrLess(a, b) ==
    IF b = <<>> THEN FALSE
    ELSE IF a = <<>> THEN TRUE
    ELSE IF Head(a) = Head(b) THEN StrLess(Tail(a), Tail(b))
    ELSE Ord(Head(a)) < Ord(Head(b))

\* sorted(S) for a set S of strings
Sorted(S) ==
    LET Body(k, out) ==
            LET rest == S \ Range(out)
            IN Append(out, CHOOSE x \in rest : \A y \in rest \ {x} : StrLess(x, y))
    IN Loop(Cardinality(S), Body, <<>>)

-----------------------------------------------------------------------------
(* Python dicts, as sequences of <<key, value>> in insertion order *)

DictKeys(d) == {d[k][1] : k \in DOMAIN d}

DictHas(d, key) == key \in DictKeys(d)

DictGet(d, key) == d[CHOOSE k \in DOMAIN d : d[k][1] = key][2]

\* d[key] = value: a new key goes last, an old key keeps its place
DictSet(d, key, value) ==
    IF DictHas(d, key)
    THEN [k \in DOMAIN d |-> IF d[k][1] = key THEN <<key, value>> ELSE d[k]]
    ELSE Append(d, <<key, value>>)

-----------------------------------------------------------------------------
(* Diacritic model *)

ascii_fold(s) ==
    [k \in DOMAIN s |-> IF s[k] \in DOMAIN DIACRITICS_MAP THEN DIACRITICS_MAP[s[k]] ELSE s[k]]

count_diacritics(s) == Cardinality({k \in DOMAIN s : s[k] \in DOMAIN DIACRITICS_MAP})

\* RE_IDENTIFIER.fullmatch(word), one operator per alternative
IsCamel(w) ==
    /\ \A k \in DOMAIN w : IsAsciiLetter(w[k])
    /\ \E k \in 2..Len(w) : IsUpperAscii(w[k])

IsSnake(w) ==
    \E k \in 2..(Len(w) - 1) :
        /\ w[k] = "_"
        /\ \A j \in 1..(k - 1) : IsAsciiLetter(w[j])
        /\ \A j \in (k + 1)..Len(w) : IsAsciiLetter(w[j]) \/ w[j] = "_"

IsAllCaps(w) == Len(w) >= 2 /\ \A k \in DOMAIN w : IsUpperAscii(w[k])

IsKebab(w) ==
    \E k \in 2..(Len(w) - 1) :
        /\ w[k] = "-"
        /\ \A j \in 1..(k - 1) : IsAsciiLetter(w[j])
        /\ \A j \in (k + 1)..Len(w) : IsAsciiLetter(w[j]) \/ w[j] = "-"

is_identifier(w) == IsCamel(w) \/ IsSnake(w) \/ IsAllCaps(w) \/ IsKebab(w)

HasSwappableAlways(w) == TRUE

\* any(c in SWAP_MAP for c in word)
HasSwappable(w) == \E k \in DOMAIN w : w[k] \in DOMAIN SWAP_MAP

-----------------------------------------------------------------------------
(* Dictionary loader *)

None == <<"<None>">>

\* the truth value Python gives a str-or-None
Truthy(x) == x # None /\ x # <<>>

RECURSIVE LStrip(_)
LStrip(s) == IF s # <<>> /\ IsSpace(Head(s)) THEN LStrip(Tail(s)) ELSE s

RECURSIVE RStrip(_)
RStrip(s) ==
    IF s # <<>> /\ IsSpace(s[Len(s)]) THEN RStrip(SubSeq(s, 1, Len(s) - 1)) ELSE s

Strip(s) == RStrip(LStrip(s))

IsDigitStr(s) == s # <<>> /\ \A k \in DOMAIN s : IsDigit(s[k])

\* index of the first c in s at or after from, 0 when there is none
FindChar(s, from, c) ==
    LET hits == {k \in DOMAIN s : k >= from /\ s[k] = c}
    IN IF hits = {} THEN 0 ELSE CHOOSE k \in hits : \A j \in hits : k <= j

\* a dictionary file: whether os.path.isfile(path) holds, and its lines
MissingFile == [exists |-> FALSE, lines |-> <<>>]

FileOf(lines) == [exists |-> TRUE, lines |-> lines]

load_word_set(file) ==
    IF ~file.exists THEN {}
    ELSE {ToLower(Strip(file.lines[k])) :
            k \in {j \in DOMAIN file.lines :
                      Strip(file.lines[j]) # <<>> /\ ~IsDigitStr(Strip(file.lines[j]))}}

\* the loop over the lines of the file
LoadLookupFrom(file) ==
    LET Body(k, lookup) ==
            LET line == Strip(file[k])
                tab == FindChar(line, 1, "\t")
            IN IF line = <<>> \/ tab = 0 THEN lookup
               ELSE LET ascii_form == SubSeq(line, 1, tab - 1)
                        forms == SubSeq(line, tab + 1, Len(line))
                        comma == FindChar(forms, 1, ",")
                        best == Strip(IF comma = 0 THEN forms
                                      ELSE SubSeq(forms, 1, comma - 1))
                    IN DictSet(lookup, ToLower(ascii_form), best)
    IN Loop(Len(file), Body, <<>>)

load_ambiguous_lookup(file) ==
    IF ~file.exists THEN <<>> ELSE LoadLookupFrom(file.lines)

-----------------------------------------------------------------------------
(* Detection layers *)

RECURSIVE FirstSuggestion(_, _, _)
FirstSuggestion(word, suggestions, k) ==
    IF k > Len(suggestions) THEN None
    ELSE LET s == suggestions[k]
         IN IF /\ ToLower(ascii_fold(s)) = ToLower(ascii_fold(word))
               /\ ToLower(s) # ToLower(word)
               /\ count_diacritics(s) > count_diacritics(word)
            THEN s
            ELSE FirstSuggestion(word, suggestions, k + 1)

layer1_suggestion(word, suggestions) == FirstSuggestion(word, suggestions, 1)

\* [c] + SWAP_MAP[c] if c in SWAP_MAP else [c]
Options(c) == IF c \in DOMAIN SWAP_MAP THEN <<c>> \o SWAP_MAP[c] ELSE <<c>>

\* every p of ps with x put in front
Prefixed(x, ps) == [k \in DOMAIN ps |-> <<x>> \o ps[k]]

RECURSIVE ForEachOption(_, _, _)
ForEachOption(opts, k, ps) ==
    IF k > Len(opts) THEN <<>>
    ELSE Prefixed(opts[k], ps) \o ForEachOption(opts, k + 1, ps)

\* itertools.product over the options of each position of w, in its order:
\* the last position changes fastest
RECURSIVE Product(_)
Product(w) ==
    IF w = <<>> THEN << <<>> >>
    ELSE ForEachOption(Options(Head(w)), 1, Product(Tail(w)))

MAX_SWAPPABLE == 6

VARIANT_CAP == 64

TooManySwappableOffByOne(swappable) == swappable > MAX_SWAPPABLE + 1

TooManySwappable(swappable) == swappable > MAX_SWAPPABLE

\* the loop over product(...): the original is skipped uncounted, the loop
\* breaks at candidate VARIANT_CAP + 1, and a counted candidate is kept when
\* it has more diacritics than the word
VariantLoop(word, combos) ==
    LET NotWord(c) == c # word
        MoreDiacritics(c) == count_diacritics(c) > count_diacritics(word)
        candidates == SelectSeq(combos, NotWord)
        counted == IF Len(candidates) > VARIANT_CAP
                   THEN SubSeq(candidates, 1, VARIANT_CAP)
                   ELSE candidates
    IN SelectSeq(counted, MoreDiacritics)

generate_variants(word) ==
    IF ~HasSwappable(word) THEN <<>>
    ELSE LET swappable == Cardinality({k \in DOMAIN word : Len(Options(word[k])) > 1})
         IN IF TooManySwappable(swappable) THEN <<>>
            ELSE VariantLoop(word, Product(word))

\* wl.startswith(w)
StartsWith(wl, w) == Len(w) <= Len(wl) /\ SubSeq(wl, 1, Len(w)) = w

WL_MIN_STEM == 5

WL_MAX_SUFFIX == 5

SuffixToleratedOffByOne(wl, w) ==
    Len(w) >= WL_MIN_STEM /\ StartsWith(wl, w) /\ Len(wl) - Len(w) <= WL_MAX_SUFFIX + 1

\* wl.startswith(w) and len(wl) - len(w) <= 5, for w with len(w) >= 5
SuffixTolerated(wl, w) ==
    Len(w) >= WL_MIN_STEM /\ StartsWith(wl, w) /\ Len(wl) - Len(w) <= WL_MAX_SUFFIX

layer3_ambiguity(word, lookup, skip, wlist) ==
    LET wl == ToLower(word)
    IN IF wl \in wlist \/ \E w \in wlist : SuffixTolerated(wl, w) THEN None
       ELSE IF wl \in skip THEN None
       ELSE IF DictHas(lookup, wl) THEN DictGet(lookup, wl)
       ELSE None

-----------------------------------------------------------------------------
(* Text stripping (Markdown / MDX) *)

\* re.sub(pattern, repl, text) for a pattern that matches no empty string:
\* MatchEnd(text, i) is the index after the match that starts at i (0 when
\* the pattern does not match there), Repl(text, i, j) what replaces text[i..j-1]
ReSub(text, MatchEnd(_, _), Repl(_, _, _)) ==
    LET \* st = <<i, out>>: the scan is at i and has produced out
        Step(st) ==
            LET j == MatchEnd(text, st[1])
            IN IF j = 0 THEN <<st[1] + 1, Append(st[2], text[st[1]])>>
               ELSE <<j, st[2] \o Repl(text, st[1], j)>>
        Done(st) == st[1] > Len(text)
    IN Iterate(Step, Done, <<1, <<>>>>)[2]

\* text[i..] starts with the literal lit
StartsAt(text, i, lit) ==
    /\ i + Len(lit) - 1 <= Len(text)
    /\ \A k \in DOMAIN lit : text[i + k - 1] = lit[k]

\* index of the first lit in text at or after from, 0 when there is none
FindLit(text, from, lit) ==
    LET hits == {k \in from..Len(text) : StartsAt(text, k, lit)}
    IN IF hits = {} THEN 0 ELSE CHOOSE k \in hits : \A j \in hits : k <= j

\* index of the first character at or after from that is not in the run
\* (Len(text) + 1 when the run reaches the end)
RunEnd(text, from, InRun(_)) ==
    LET stops == {k \in from..Len(text) : ~InRun(text[k])}
    IN IF stops = {} THEN Len(text) + 1 ELSE CHOOSE k \in stops : \A j \in stops : k <= j

\* ^ under re.MULTILINE
AtLineStart(text, i) == i = 1 \/ text[i - 1] = NL

\* _blank: "\n" * m.group(0).count("\n")
Blank(text, i, j) ==
    [k \in 1..Cardinality({m \in i..(j - 1) : text[m] = NL}) |-> NL]

Space(text, i, j) == <<" ">>

Nothing(text, i, j) == <<>>

\* an opening character, a body without the closing character of at least
\* minBody characters, the closing character
Delimited(text, i, open, close, minBody) ==
    IF text[i] # open THEN 0
    ELSE LET k == FindChar(text, i + 1, close)
         IN IF k = 0 \/ k - i - 1 < minBody THEN 0 ELSE k + 1

\* open, anything (as little as possible), close
Fenced(text, i, open, close) ==
    IF ~StartsAt(text, i, open) THEN 0
    ELSE LET k == FindLit(text, i + Len(open), close)
         IN IF k = 0 THEN 0 ELSE k + Len(close)

\* r"^---\n.*?\n---\n", count=1, re.DOTALL: only at the start of the text
FrontMatter(text) ==
    LET j == Fenced(text, 1, <<"-", "-", "-", NL>>, <<NL, "-", "-", "-", NL>>)
    IN IF text = <<>> \/ j = 0 THEN text
       ELSE Blank(text, 1, j) \o SubSeq(text, j, Len(text))

BacktickFence(text, i) == Fenced(text, i, <<BT, BT, BT>>, <<BT, BT, BT>>)

TildeFence(text, i) == Fenced(text, i, <<"~", "~", "~">>, <<"~", "~", "~">>)

InlineCode(text, i) == Delimited(text, i, BT, BT, 1)

\* r"^(?:import|export)\s+.*$", re.MULTILINE
ImportExport(text, i) ==
    IF /\ AtLineStart(text, i)
       /\ \/ StartsAt(text, i, <<"i", "m", "p", "o", "r", "t">>)
          \/ StartsAt(text, i, <<"e", "x", "p", "o", "r", "t">>)
       /\ i + 6 <= Len(text)
       /\ IsSpace(text[i + 6])
    THEN LET NotNL(c) == c # NL
         IN RunEnd(text, RunEnd(text, i + 6, IsSpace), NotNL)
    ELSE 0

Tag(text, i) == Delimited(text, i, "<", ">", 1)

Brace(text, i) == Delimited(text, i, "{", "}", 0)

\* r"https?://\S+"
Url(text, i) ==
    LET NotSpace(c) == ~IsSpace(c)
        rest == IF StartsAt(text, i, <<"h", "t", "t", "p", "s", ":", "/", "/">>) THEN i + 8
                ELSE IF StartsAt(text, i, <<"h", "t", "t", "p", ":", "/", "/">>) THEN i + 7
                ELSE 0
    IN IF rest = 0 \/ rest > Len(text) \/ IsSpace(text[rest]) THEN 0
       ELSE RunEnd(text, rest, NotSpace)

\* r"\[[^\]]*\]\([^)]+\)" with the "[" at i: <<index of "]", index after ")">>
LinkAt(text, i) ==
    IF i > Len(text) \/ text[i] # "[" THEN <<0, 0>>
    ELSE LET k == FindChar(text, i + 1, "]")
         IN IF k = 0 \/ k + 1 > Len(text) THEN <<0, 0>>
            ELSE <<k, Delimited(text, k + 1, "(", ")", 1)>>

\* r"!\[[^\]]*\]\([^)]+\)"
Image(text, i) == IF text[i] = "!" THEN LinkAt(text, i + 1)[2] ELSE 0

\* r"\[([^\]]*)\]\([^)]+\)"
Link(text, i) == LinkAt(text, i)[2]

\* r"\1" of a link: its label
LinkLabel(text, i, j) == SubSeq(text, i + 1, LinkAt(text, i)[1] - 1)

\* r"\[\^[^\]]+\]"
Footnote(text, i) ==
    IF StartsAt(text, i, <<"[", "^">>) THEN
        LET k == FindChar(text, i + 2, "]")
        IN IF k = 0 \/ k = i + 2 THEN 0 ELSE k + 1
    ELSE 0

\* r"\[/?(?:bdi|var)\]"
InlineToken(text, i) ==
    LET Lit(s) == IF StartsAt(text, i, s) THEN i + Len(s) ELSE 0
        ends == {Lit(<<"[", "b", "d", "i", "]">>), Lit(<<"[", "v", "a", "r", "]">>),
                 Lit(<<"[", "/", "b", "d", "i", "]">>), Lit(<<"[", "/", "v", "a", "r", "]">>)}
    IN IF ends = {0} THEN 0 ELSE CHOOSE j \in ends : j # 0

\* r"<!--.*?-->", re.DOTALL
Comment(text, i) == Fenced(text, i, <<"<", "!", "-", "-">>, <<"-", "-", ">">>)

\* r"^#+\s*", re.MULTILINE
Heading(text, i) ==
    IF AtLineStart(text, i) /\ text[i] = "#"
    THEN LET IsHash(c) == c = "#"
         IN RunEnd(text, RunEnd(text, i, IsHash), IsSpace)
    ELSE 0

\* r"\*{1,3}|_{1,3}"
Emphasis(text, i) ==
    IF text[i] \in {"*", "_"}
    THEN LET Same(c) == c = text[i]
             e == RunEnd(text, i, Same)
         IN IF e - i > 3 THEN i + 3 ELSE e
    ELSE 0

\* the passes of strip_non_prose, in order; each set holds the one text the
\* pass before it produced
strip_non_prose(text) ==
    LET P2(t) == ReSub(t, BacktickFence, Blank)
        P3(t) == ReSub(t, TildeFence, Blank)
        P4(t) == ReSub(t, InlineCode, Space)
        P5(t) == ReSub(t, ImportExport, Space)
        P6(t) == ReSub(t, Tag, Space)
        P7(t) == ReSub(t, Brace, Space)
        P8(t) == ReSub(t, Url, Space)
        P9(t) == ReSub(t, Image, Space)
        P10(t) == ReSub(t, Link, LinkLabel)
        P11(t) == ReSub(t, Footnote, Space)
        P12(t) == ReSub(t, InlineToken, Space)
        P13(t) == ReSub(t, Comment, Blank)
        P14(t) == ReSub(t, Heading, Nothing)
        P15(t) == ReSub(t, Emphasis, Nothing)
        s1 == {FrontMatter(t) : t \in {text}}
        s2 == {P2(t) : t \in s1}
        s3 == {P3(t) : t \in s2}
        s4 == {P4(t) : t \in s3}
        s5 == {P5(t) : t \in s4}
        s6 == {P6(t) : t \in s5}
        s7 == {P7(t) : t \in s6}
        s8 == {P8(t) : t \in s7}
        s9 == {P9(t) : t \in s8}
        s10 == {P10(t) : t \in s9}
        s11 == {P11(t) : t \in s10}
        s12 == {P12(t) : t \in s11}
        s13 == {P13(t) : t \in s12}
        s14 == {P14(t) : t \in s13}
    IN Only({P15(t) : t \in s14})

CountNL(text) == Cardinality({k \in DOMAIN text : text[k] = NL})

-----------------------------------------------------------------------------
(* Word indexer *)

\* str.splitlines(): the lines of a text, a final line break adding no line
SplitLines(text) ==
    LET \* st = <<i, lines>>: the next line starts at i
        Step(st) ==
            LET k == FindChar(text, st[1], NL)
            IN IF k = 0 THEN <<Len(text) + 1, Append(st[2], SubSeq(text, st[1], Len(text)))>>
               ELSE <<k + 1, Append(st[2], SubSeq(text, st[1], k - 1))>>
        Done(st) == st[1] > Len(text)
    IN Iterate(Step, Done, <<1, <<>>>>)[2]

\* re.findall(r"\b[letters]+\b", line): the runs of word characters that
\* are made of letters of the class only
FindWords(line) ==
    LET \* st = <<i, words>>: the scan is at i
        Step(st) ==
            IF ~IsWordChar(line[st[1]]) THEN <<st[1] + 1, st[2]>>
            ELSE LET e == RunEnd(line, st[1], IsWordChar)
                     w == SubSeq(line, st[1], e - 1)
                 IN <<e, IF \A k \in DOMAIN w : IsWordLetter(w[k])
                         THEN Append(st[2], w) ELSE st[2]>>
        Done(st) == st[1] > Len(line)
    IN Iterate(Step, Done, <<1, <<>>>>)[2]

\* word_locations.setdefault(word, []).append(line_num) for the words of a line
IndexWords(locs, words, line_num) ==
    LET Body(k, d) ==
            LET word == words[k]
            IN IF Len(word) < 2 THEN d
               ELSE DictSet(d, word,
                            Append(IF DictHas(d, word) THEN DictGet(d, word) ELSE <<>>,
                                   line_num))
    IN Loop(Len(words), Body, locs)

\* for line_num, line in enumerate(prose.splitlines(), 1)
IndexLines(lines) ==
    LET Body(line_num, locs) == IndexWords(locs, FindWords(lines[line_num]), line_num)
    IN Loop(Len(lines), Body, <<>>)

WordLocations(text) == IndexLines(SplitLines(text))

\* word_locations.get(word, [])
LinesOf(locs, word) == IF DictHas(locs, word) THEN DictGet(locs, word) ELSE <<>>

-----------------------------------------------------------------------------
(* Spell checker adapter *)

\* A line of hunspell -a: "&" with the word and its suggestions, "#" with the
\* word, anything else for a word it accepts
OkLine == [mark |-> "*", word |-> <<>>, suggestions |-> <<>>]

\* the loop over proc.stdout.splitlines()
ParseCheckOutput(lines) ==
    LET Body(k, results) ==
            LET line == lines[k]
            IN IF line.mark = "&" THEN DictSet(results, line.word, line.suggestions)
               ELSE IF line.mark = "#" /\ line.word # <<>>
                    THEN DictSet(results, line.word, <<>>)
                    ELSE results
    IN Loop(Len(lines), Body, <<>>)

\* answer: what subprocess.run did, a timeout or a missing program ("fail")
\* or the output of the process
hunspell_check_text(answer) ==
    IF answer.status = "fail" THEN <<>> ELSE ParseCheckOutput(answer.lines)

hunspell_batch_valid(words, answer) ==
    IF words = <<>> THEN {}
    ELSE IF answer.status = "fail" THEN {}
    ELSE Range(words) \ answer.misspelled

-----------------------------------------------------------------------------
(* main *)

LAYER3_BRAKE == 15

BrakeReachedLate(count) == count > LAYER3_BRAKE

\* layer3_count >= LAYER3_BRAKE
BrakeReached(count) == count >= LAYER3_BRAKE

Finding(word, correction, lines, confidence, layer) ==
    [word |-> word, correction |-> correction, lines |-> lines,
     confidence |-> confidence, layer |-> layer]

unique_words == DictKeys(word_locations)

\* wl in seen_lower
Claimed(wl, seen) == wl \in seen

Pass1OverEarly(i, items) == TRUE

\* the for loop over misspellings.items() has no item left
Pass1Over(i, items) == i > Len(items)

\* the flattening of layer2_candidates: <<all_variants, variant_to_word>>
Flatten(cands) ==
    LET Body(k, acc) ==
            LET word == cands[k][1]
                variants == cands[k][2]
                Put(j, d) == DictSet(d, variants[j], word)
            IN <<acc[1] \o variants, Loop(Len(variants), Put, acc[2])>>
    IN Loop(Len(cands), Body, << <<>>, <<>> >>)

\* min(valid_list, key=count_diacritics): the first of the fewest
MinByDiacritics(valid_list) ==
    LET least == CHOOSE k \in DOMAIN valid_list :
                    /\ \A j \in DOMAIN valid_list :
                          count_diacritics(valid_list[k]) <= count_diacritics(valid_list[j])
                    /\ \A j \in 1..(k - 1) :
                          count_diacritics(valid_list[j]) > count_diacritics(valid_list[k])
    IN valid_list[least]

\* the report: a header, then the findings of each confidence after a title
ReportLines(errs) ==
    LET IsHigh(e) == e.confidence = "high"
        IsMedium(e) == e.confidence = "medium"
        high == SelectSeq(errs, IsHigh)
        medium == SelectSeq(errs, IsMedium)
        Item(e) == <<"item", e.word, e.correction,
                     IF e.lines # <<>> THEN e.lines[1] ELSE 0>>
        Group(title, es) ==
            IF es = <<>> THEN <<>>
            ELSE << <<title, Len(es)>> >> \o [k \in DOMAIN es |-> Item(es[k])] \o << <<"">> >>
    IN << <<"errors", Len(errs)>>, <<"">> >> \o Group("HIGH", high) \o Group("MEDIUM", medium)
       \o << <<"Fix these">> >>

\* lines 269-289: the payload, the action kind, the target's name
ReadPayload ==
    /\ pc = "start"
    /\ LET outcome ==
            IF payload.json = "malformed" THEN 0
            ELSE IF payload.json = "not_object" THEN 1
            ELSE IF payload.tool_name \notin {"Edit", "Write"} THEN 0
            ELSE IF payload.tool_input = "not_object" THEN 1
            ELSE IF payload.file_path \in {"missing", "empty"} THEN 0
            ELSE IF payload.file_path = "not_str" THEN 1
            ELSE IF payload.file_path # "checked" THEN 0
            ELSE IF file_state = "missing" THEN 0
            ELSE -1
       IN /\ pc' = IF outcome = -1 THEN "read_file" ELSE "exit"
          /\ exit_code' = outcome
    /\ UNCHANGED <<payload, file_state, content, dict_files, oracle1, oracle2, prose,
                   whitelist, amb_lookup, amb_skip, word_locations, misspellings,
                   errors, seen_lower, layer2_candidates, variant_to_word,
                   valid_variants, unvisited, word_valid, sorted_words, idx, layer3_count, calls,
                   run, first_errors, stderr, fn>>

\* lines 291-299: read the file, strip it, load the dictionaries
ReadFile ==
    /\ pc = "read_file"
    /\ IF file_state = "unreadable"
       THEN /\ pc' = "exit"
            /\ exit_code' = 1
            /\ UNCHANGED <<prose, whitelist, amb_lookup, amb_skip>>
       ELSE /\ pc' = "layer0"
            /\ prose' = strip_non_prose(content)
            /\ whitelist' = load_word_set(dict_files.whitelist)
            /\ amb_lookup' = load_ambiguous_lookup(dict_files.lookup)
            /\ amb_skip' = load_word_set(dict_files.skip)
            /\ UNCHANGED exit_code
    /\ UNCHANGED <<payload, file_state, content, dict_files, oracle1, oracle2,
                   word_locations, misspellings, errors, seen_lower,
                   layer2_candidates, variant_to_word, valid_variants, unvisited,
                   word_valid, sorted_words, idx, layer3_count, calls, run, first_errors, stderr, fn>>

\* lines 304-311
Layer0 ==
    /\ pc = "layer0"
    /\ word_locations' = WordLocations(prose)
    /\ pc' = "call1"
    /\ UNCHANGED <<payload, file_state, content, dict_files, oracle1, oracle2,
                   exit_code, prose, whitelist, amb_lookup, amb_skip, misspellings,
                   errors, seen_lower, layer2_candidates, variant_to_word,
                   valid_variants, unvisited, word_valid, sorted_words, idx, layer3_count, calls,
                   run, first_errors, stderr, fn>>

-----------------------------------------------------------------------------
(* The words and answers the model draws from.  In the names of the words  *)
(* "h" after s marks the cedilla: shas is s~as.                            *)

sas == <<"s", "a", "s">>
Sas == <<"S", "a", "s">>
shas == <<"s~", "a", "s">>
sash == <<"s", "a", "s~">>
shash == <<"s~", "a", "s~">>
Shash == <<"S~", "a", "s~">>
aaa == <<"a", "a", "a">>
asha == <<"a", "s~", "a">>
sAs == <<"s", "A", "s">>
SAS == <<"S", "A", "S">>
sa == <<"s", "a">>

\* the words of the generated documents
Vocab == {sas, Sas, shas, aaa}

\* the words the spell checker may reject
Flaggable == Vocab \cup {sAs, sa}

\* the suggestion lists of an "&" line
SuggLists == {<<shash>>, <<aaa, sash>>}

\* the words hunspell -l may accept
Lexicons == {{}, {shash}, {sash, shas}, {shash, Shash}, {sash, shash}}

LineChoices(w) ==
    {OkLine} \cup
    (IF w \in Flaggable
     THEN {[mark |-> "#", word |-> w, suggestions |-> <<>>]} \cup
          {[mark |-> "&", word |-> w, suggestions |-> sl] : sl \in SuggLists}
     ELSE {})

\* the outputs of hunspell -a on the words, one line per word
CheckOutputs(words) ==
    LET Body(k, outs) == {out \o <<l>> : out \in outs, l \in LineChoices(words[k])}
    IN Loop(Len(words), Body, {<<>>})

NotCalled == [status |-> "none", lines |-> <<>>, misspelled |-> {}]

Failed == [status |-> "fail", lines |-> <<>>, misspelled |-> {}]

CheckAnswers(words) ==
    {Failed} \cup {[status |-> "ok", lines |-> out, misspelled |-> {}] : out \in CheckOutputs(words)}

BatchAnswers(words) ==
    {Failed} \cup
    {[status |-> "ok", lines |-> <<>>, misspelled |-> Range(words) \ lex] : lex \in Lexicons}

-----------------------------------------------------------------------------

\* lines 316-325: hunspell call #1 on the sorted unique words.  The answer is
\* the spell checker's; a second invocation of the hook meets the same one.
HunspellCall1 ==
    /\ pc = "call1"
    /\ \E answer \in (IF oracle1.status = "none"
                      THEN CheckAnswers(Sorted(unique_words))
                      ELSE {oracle1}) :
          /\ oracle1' = answer
          /\ misspellings' = hunspell_check_text(answer)
    /\ calls' = Append(calls, "check_text")
    /\ errors' = <<>>
    /\ seen_lower' = {}
    /\ layer2_candidates' = <<>>
    /\ idx' = 1
    /\ pc' = "pass1"
    /\ UNCHANGED <<payload, file_state, content, dict_files, oracle2, exit_code, prose,
                   whitelist, amb_lookup, amb_skip, word_locations, variant_to_word,
                   valid_variants, unvisited, word_valid, sorted_words, layer3_count, run,
                   first_errors, stderr, fn>>

\* lines 327-350: one turn of the loop over misspellings.items()
Pass1Step ==
    /\ pc = "pass1"
    /\ idx <= Len(misspellings)
    /\ LET word == misspellings[idx][1]
           suggestions == misspellings[idx][2]
           wl == ToLower(word)
           correction == layer1_suggestion(word, suggestions)
           variants == generate_variants(word)
       IN IF Claimed(wl, seen_lower) \/ Len(word) < 3
             \/ is_identifier(word) \/ wl \in whitelist
          THEN UNCHANGED <<errors, seen_lower, layer2_candidates>>
          ELSE IF Truthy(correction)
          THEN /\ errors' = Append(errors,
                                   Finding(word, correction, LinesOf(word_locations, word),
                                           "high", 1))
               /\ seen_lower' = seen_lower \cup {wl}
               /\ UNCHANGED layer2_candidates
          ELSE /\ layer2_candidates' =
                      IF variants # <<>> THEN DictSet(layer2_candidates, word, variants)
                      ELSE layer2_candidates
               /\ UNCHANGED <<errors, seen_lower>>
    /\ idx' = idx + 1
    /\ UNCHANGED <<payload, file_state, content, dict_files, oracle1, oracle2, pc,
                   exit_code, prose, whitelist, amb_lookup, amb_skip, word_locations,
                   misspellings, variant_to_word, valid_variants, unvisited,
                   word_valid, sorted_words, layer3_count, calls, run, first_errors, stderr, fn>>

\* line 355: the loop is over; is there anything for Layer 2?
Pass1End ==
    /\ pc = "pass1"
    /\ Pass1Over(idx, misspellings)
    /\ IF layer2_candidates # <<>>
       THEN /\ pc' = "call2"
            /\ UNCHANGED <<sorted_words, idx>>
       ELSE /\ pc' = "layer3"
            /\ sorted_words' = Sorted(unique_words)
            /\ idx' = 1
    /\ UNCHANGED <<payload, file_state, content, dict_files, oracle1, oracle2,
                   exit_code, prose, whitelist, amb_lookup, amb_skip, word_locations,
                   misspellings, errors, seen_lower, layer2_candidates,
                   variant_to_word, valid_variants, unvisited, word_valid,
                   layer3_count, calls, run, first_errors, stderr, fn>>

\* lines 356-365: hunspell call #2 on all the variants of all the candidates
HunspellCall2 ==
    /\ pc = "call2"
    /\ LET flat == Flatten(layer2_candidates)
           all_variants == flat[1]
       IN /\ variant_to_word' = flat[2]
          /\ \E answer \in (IF oracle2.status = "none"
                            THEN BatchAnswers(all_variants)
                            ELSE {oracle2}) :
                /\ oracle2' = answer
                /\ valid_variants' = hunspell_batch_valid(all_variants, answer)
                /\ unvisited' = hunspell_batch_valid(all_variants, answer)
          /\ calls' = IF all_variants # <<>> THEN Append(calls, "batch_valid") ELSE calls
    /\ word_valid' = <<>>
    /\ pc' = "group"
    /\ UNCHANGED <<payload, file_state, content, dict_files, oracle1, exit_code, prose,
                   sorted_words,
                   whitelist, amb_lookup, amb_skip, word_locations, misspellings,
                   errors, seen_lower, layer2_candidates, idx, layer3_count, run,
                   first_errors, stderr, fn>>

\* lines 366-368: one turn of the loop over the set valid_variants, which
\* hands out its elements in an order of its own
GroupStep ==
    /\ pc = "group"
    /\ \E v \in unvisited :
          LET src == DictGet(variant_to_word, v)
              old == IF DictHas(word_valid, src) THEN DictGet(word_valid, src) ELSE <<>>
          IN /\ word_valid' = DictSet(word_valid, src, Append(old, v))
             /\ unvisited' = unvisited \ {v}
    /\ UNCHANGED <<payload, file_state, content, dict_files, oracle1, oracle2, pc,
                   sorted_words,
                   exit_code, prose, whitelist, amb_lookup, amb_skip, word_locations,
                   misspellings, errors, seen_lower, layer2_candidates,
                   variant_to_word, valid_variants, idx, layer3_count, calls, run,
                   first_errors, stderr, fn>>

GroupEnd ==
    /\ pc = "group"
    /\ unvisited = {}
    /\ pc' = "layer2"
    /\ idx' = 1
    /\ UNCHANGED <<payload, file_state, content, dict_files, oracle1, oracle2,
                   exit_code, prose, whitelist, amb_lookup, amb_skip, word_locations,
                   misspellings, errors, seen_lower, layer2_candidates,
                   variant_to_word, valid_variants, unvisited, word_valid, sorted_words,
                   layer3_count, calls, run, first_errors, stderr, fn>>

\* lines 370-385: one turn of the loop over word_valid.items()
Layer2Step ==
    /\ pc = "layer2"
    /\ idx <= Len(word_valid)
    /\ LET word == word_valid[idx][1]
           valid_list == word_valid[idx][2]
           wl == ToLower(word)
       IN IF Claimed(wl, seen_lower)
          THEN UNCHANGED <<errors, seen_lower>>
          ELSE /\ errors' = Append(errors,
                                   Finding(word, MinByDiacritics(valid_list),
                                           LinesOf(word_locations, word), "high", 2))
               /\ seen_lower' = seen_lower \cup {wl}
    /\ idx' = idx + 1
    /\ UNCHANGED <<payload, file_state, content, dict_files, oracle1, oracle2, pc,
                   exit_code, prose, whitelist, amb_lookup, amb_skip, word_locations,
                   misspellings, layer2_candidates, variant_to_word, valid_variants,
                   unvisited, word_valid, sorted_words, layer3_count, calls, run, first_errors,
                   stderr, fn>>

Layer2End ==
    /\ pc = "layer2"
    /\ idx > Len(word_valid)
    /\ pc' = "layer3"
    /\ sorted_words' = Sorted(unique_words)
    /\ idx' = 1
    /\ UNCHANGED <<payload, file_state, content, dict_files, oracle1, oracle2,
                   exit_code, prose, whitelist, amb_lookup, amb_skip, word_locations,
                   misspellings, errors, seen_lower, layer2_candidates,
                   variant_to_word, valid_variants, unvisited, word_valid,
                   layer3_count, calls, run, first_errors, stderr, fn>>

\* lines 393-419: one turn of the loop over sorted(unique_words)
Layer3Step ==
    /\ pc = "layer3"
    /\ idx <= Len(sorted_words)
    /\ LET word == sorted_words[idx]
           wl == ToLower(word)
           correction == layer3_ambiguity(word, amb_lookup, amb_skip, whitelist)
       IN IF \/ Claimed(wl, seen_lower)
             \/ is_identifier(word) \/ Len(word) < 3
             \/ ~HasSwappable(word)
             \/ DictHas(misspellings, word)
             \/ ~(Truthy(correction) /\ ToLower(correction) # wl)
          THEN /\ idx' = idx + 1
               /\ UNCHANGED <<errors, seen_lower, layer3_count, pc>>
          ELSE /\ errors' = Append(errors,
                                   Finding(word, correction, LinesOf(word_locations, word),
                                           "medium", 3))
               /\ seen_lower' = seen_lower \cup {wl}
               /\ layer3_count' = layer3_count + 1
               /\ idx' = idx + 1
               /\ pc' = IF BrakeReached(layer3_count + 1) THEN "report" ELSE "layer3"
    /\ UNCHANGED <<payload, file_state, content, dict_files, oracle1, oracle2,
                   exit_code, prose, whitelist, amb_lookup, amb_skip, word_locations,
                   misspellings, layer2_candidates, variant_to_word, valid_variants,
                   unvisited, word_valid, sorted_words, calls, run, first_errors, stderr, fn>>

Layer3End ==
    /\ pc = "layer3"
    /\ idx > Len(sorted_words)
    /\ pc' = "report"
    /\ UNCHANGED <<payload, file_state, content, dict_files, oracle1, oracle2,
                   exit_code, prose, whitelist, amb_lookup, amb_skip, word_locations,
                   misspellings, errors, seen_lower, layer2_candidates,
                   variant_to_word, valid_variants, unvisited, word_valid, sorted_words, idx,
                   layer3_count, calls, run, first_errors, stderr, fn>>

\* lines 421-452
Report ==
    /\ pc = "report"
    /\ pc' = "exit"
    /\ IF errors = <<>>
       THEN exit_code' = 0 /\ UNCHANGED stderr
       ELSE exit_code' = 2 /\ stderr' = ReportLines(errors)
    /\ UNCHANGED <<payload, file_state, content, dict_files, oracle1, oracle2, prose,
                   whitelist, amb_lookup, amb_skip, word_locations, misspellings,
                   errors, seen_lower, layer2_candidates, variant_to_word,
                   valid_variants, unvisited, word_valid, sorted_words, idx, layer3_count, calls,
                   run, first_errors, fn>>

\* The hook runs again on the unchanged file, with the same dictionaries and
\* the same spell checker: a fresh process, its first findings kept aside.
Rerun ==
    /\ pc = "exit"
    /\ run = 1
    /\ run' = 2
    /\ first_errors' = errors
    /\ pc' = "start"
    /\ exit_code' = -1
    /\ prose' = <<>>
    /\ whitelist' = {}
    /\ amb_lookup' = <<>>
    /\ amb_skip' = {}
    /\ word_locations' = <<>>
    /\ misspellings' = <<>>
    /\ errors' = <<>>
    /\ seen_lower' = {}
    /\ layer2_candidates' = <<>>
    /\ variant_to_word' = <<>>
    /\ valid_variants' = {}
    /\ unvisited' = {}
    /\ word_valid' = <<>>
    /\ sorted_words' = <<>>
    /\ idx' = 0
    /\ layer3_count' = 0
    /\ calls' = <<>>
    /\ stderr' = <<>>
    /\ UNCHANGED <<payload, file_state, content, dict_files, oracle1, oracle2, fn>>

-----------------------------------------------------------------------------
(* Functions applied on their own *)

NoCall == [op |-> "none", arg |-> <<>>, res |-> <<>>, done |-> FALSE]

Call(op, arg) == [op |-> op, arg |-> arg, res |-> <<>>, done |-> FALSE]

ScanVars == <<payload, file_state, content, dict_files, oracle1, oracle2, pc,
              exit_code, prose, whitelist, amb_lookup, amb_skip, word_locations,
              misspellings, errors, seen_lower, layer2_candidates,
              variant_to_word, valid_variants, unvisited, word_valid,
              sorted_words, idx, layer3_count, calls, run, first_errors, stderr>>

ApplyGenerateVariants ==
    /\ fn.op = "generate_variants"
    /\ ~fn.done
    /\ fn' = [fn EXCEPT !.res = generate_variants(fn.arg), !.done = TRUE]
    /\ UNCHANGED ScanVars

\* fn.arg = <<word, amb_lookup, amb_skip, whitelist>>
ApplyLayer3Ambiguity ==
    /\ fn.op = "layer3_ambiguity"
    /\ ~fn.done
    /\ fn' = [fn EXCEPT !.res = layer3_ambiguity(fn.arg[1], fn.arg[2], fn.arg[3], fn.arg[4]),
                        !.done = TRUE]
    /\ UNCHANGED ScanVars

ApplyStripNonProse ==
    /\ fn.op = "strip_non_prose"
    /\ ~fn.done
    /\ fn' = [fn EXCEPT !.res = strip_non_prose(fn.arg), !.done = TRUE]
    /\ UNCHANGED ScanVars

-----------------------------------------------------------------------------
(* Initial states *)

\* the sequences over S of length at most n
SeqsUpTo(S, n) == UNION {[1..k -> S] : k \in 0..n}

\* a document with one word per line
DocOf(ws) ==
    LET Body(k, doc) == doc \o ws[k] \o <<NL>>
    IN Loop(Len(ws), Body, <<>>)

Reversed(q) == [k \in DOMAIN q |-> q[Len(q) + 1 - k]]

MaxDocWords == 2

MaxBigDoc == 18

\* the three-letter words over a, c, s with a letter that takes a diacritic
BigVocab == {w \in [1..3 -> {"a", "c", "s"}] : HasSwappable(w)}

\* the last n of them, in descending order
BigDoc(n) == DocOf(SubSeq(Reversed(Sorted(BigVocab)), 1, n))

\* every swappable letter of w swapped
FullSwap(w) == [k \in DOMAIN w |-> IF w[k] \in DOMAIN SWAP_MAP THEN SWAP_MAP[w[k]][1] ELSE w[k]]

\* "```", sas, "```", Sas on four lines
FencedDoc == <<BT, BT, BT, NL>> \o sas \o <<NL, BT, BT, BT, NL>> \o Sas \o <<NL>>

\* an inline code span over two lines, then shas; sas on the last line
InlineDoc == <<BT>> \o sas \o <<NL>> \o sas \o <<BT, " ">> \o shas \o <<NL>> \o sas

\* words of every shape on one line, sas again on the next
ShapesDoc == sas \o <<" ">> \o sAs \o <<" ">> \o SAS \o <<" ">> \o sa \o <<" ", "s", NL>> \o sas

\* two casings of a word and a word that shares a variant with them
CasingsDoc == Sas \o <<" ">> \o sas \o <<" ">> \o shas \o <<NL>>

Documents ==
    {DocOf(ws) : ws \in SeqsUpTo(Vocab, MaxDocWords)}
    \cup {BigDoc(n) : n \in LAYER3_BRAKE..MaxBigDoc}
    \cup {FencedDoc, InlineDoc, ShapesDoc, CasingsDoc}

\* ambiguous-lookup.tsv: a row per word of BigVocab, a row for aaa, and a
\* second row for sss that gives its capitals
LookupFile ==
    FileOf([k \in 1..Cardinality(BigVocab) |->
               LET w == Sorted(BigVocab)[k] IN w \o <<"\t">> \o FullSwap(w) \o <<",">> \o w]
           \o << aaa \o <<"\t">> \o asha,
                 <<"S", "s", "s", "\t", "S", "S", "S">> >>)

\* whitelist.dic: Sas with a trailing blank, a count, an empty line
WhitelistFile == FileOf(<< Sas \o <<" ">>, <<"1", "2">>, <<>> >>)

\* ambiguous-skip.dic
SkipFile == FileOf(<< <<"s", "s", "c">> >>)

NoDicts == [whitelist |-> MissingFile, lookup |-> MissingFile, skip |-> MissingFile]

LookupOnly == [whitelist |-> MissingFile, lookup |-> LookupFile, skip |-> MissingFile]

AllDicts == [whitelist |-> WhitelistFile, lookup |-> LookupFile, skip |-> SkipFile]

DictChoices == {NoDicts, LookupOnly, AllDicts}

\* what the hook reads from stdin
Payload(json, tool_name, tool_input, file_path) ==
    [json |-> json, tool_name |-> tool_name, tool_input |-> tool_input,
     file_path |-> file_path]

EditPayload == Payload("object", "Edit", "object", "checked")

Payloads ==
    {Payload("malformed", "", "", ""),
     Payload("not_object", "", "", ""),
     Payload("object", "Read", "object", "checked"),
     Payload("object", "", "object", "checked"),
     Payload("object", "Edit", "not_object", ""),
     Payload("object", "Edit", "object", "missing"),
     Payload("object", "Write", "object", "empty"),
     Payload("object", "Write", "object", "not_str"),
     Payload("object", "Edit", "object", "other"),
     Payload("object", "Write", "object", "checked"),
     EditPayload}

\* the state of main() before its first line
Fresh ==
    /\ oracle1 = NotCalled
    /\ oracle2 = NotCalled
    /\ exit_code = -1
    /\ prose = <<>>
    /\ whitelist = {}
    /\ amb_lookup = <<>>
    /\ amb_skip = {}
    /\ word_locations = <<>>
    /\ misspellings = <<>>
    /\ errors = <<>>
    /\ seen_lower = {}
    /\ layer2_candidates = <<>>
    /\ variant_to_word = <<>>
    /\ valid_variants = {}
    /\ unvisited = {}
    /\ word_valid = <<>>
    /\ sorted_words = <<>>
    /\ idx = 0
    /\ layer3_count = 0
    /\ calls = <<>>
    /\ run = 1
    /\ first_errors = <<>>
    /\ stderr = <<>>

InitEntry ==
    /\ payload \in Payloads
    /\ file_state \in {"missing", "unreadable", "readable"}
    /\ content = DocOf(<<sas>>)
    /\ dict_files = LookupOnly

InitScan ==
    /\ payload = EditPayload
    /\ file_state = "readable"
    /\ content \in Documents
    /\ dict_files \in DictChoices

Init ==
    /\ InitEntry \/ InitScan
    /\ pc = "start"
    /\ Fresh
    /\ fn = NoCall

Next ==
    \/ ReadPayload
    \/ ReadFile
    \/ Layer0
    \/ HunspellCall1
    \/ Pass1Step
    \/ Pass1End
    \/ HunspellCall2
    \/ GroupStep
    \/ GroupEnd
    \/ Layer2Step
    \/ Layer2End
    \/ Layer3Step
    \/ Layer3End
    \/ Report

Spec == Init /\ [][Next]_vars

\* two invocations of the hook on the same file
InitTwice ==
    /\ payload = EditPayload
    /\ file_state = "readable"
    /\ content \in {DocOf(ws) : ws \in SeqsUpTo({sas, Sas}, MaxDocWords)} \cup {BigDoc(LAYER3_BRAKE)}
    /\ dict_files \in {LookupOnly}
    /\ pc = "start"
    /\ Fresh
    /\ fn = NoCall

NextTwice == Next \/ Rerun

SpecTwice == InitTwice /\ [][NextTwice]_vars

\* generate_variants on its own
MaxVariantLen == 7

Idle ==
    /\ payload = EditPayload
    /\ file_state = "readable"
    /\ content = <<>>
    /\ dict_files = NoDicts
    /\ pc = "idle"
    /\ Fresh

InitVariants ==
    /\ Idle
    /\ \E w \in SeqsUpTo({"s", "s~", "a"}, MaxVariantLen) : fn = Call("generate_variants", w)

SpecVariants == InitVariants /\ [][ApplyGenerateVariants]_vars

\* layer3_ambiguity on its own
MaxAmbWordLen == 12

AmbBase == <<"k", "i", "t", "a", "p", "c", "i", "k", "l", "a", "r", "i", "m", "i", "z", "d", "a", "n">>

AmbEntries ==
    {SubSeq(AmbBase, 1, 4), SubSeq(AmbBase, 1, 5), SubSeq(AmbBase, 1, 6),
     <<"k", "a", "l", "e", "m">>, SubSeq(AmbBase, 1, 13)}

AmbWords ==
    UNION {{SubSeq(AmbBase, 1, n), <<"K">> \o SubSeq(AmbBase, 2, n)} : n \in 1..MaxAmbWordLen}

InitAmbiguity ==
    /\ Idle
    /\ \E w \in AmbWords, wlist \in {x \in SUBSET AmbEntries : Cardinality(x) <= 2} :
          fn = Call("layer3_ambiguity",
                    <<w, << <<ToLower(w), FullSwap(ToLower(w))>> >>, {}, wlist>>)

SpecAmbiguity == InitAmbiguity /\ [][ApplyLayer3Ambiguity]_vars

\* strip_non_prose on its own
MaxTextLen == 4

TenLineDoc ==
    <<"a", NL, "b", NL, "c", NL, BT, BT, BT, NL, "x", NL, BT, BT, BT, NL>>
    \o sas \o <<NL, "e", NL, "f", NL, "g", NL>>

InitStrip ==
    /\ Idle
    /\ \E t \in SeqsUpTo({"a", NL, BT, "#", " "}, MaxTextLen)
                \cup {TenLineDoc, FencedDoc, InlineDoc, ShapesDoc} :
          fn = Call("strip_non_prose", t)

SpecStrip == InitStrip /\ [][ApplyStripNonProse]_vars

-----------------------------------------------------------------------------
(* Properties *)

\* the ASCII letters that take a diacritic
EligibleLetters == {"c", "g", "i", "o", "s", "u", "C", "G", "I", "O", "S", "U"}

HasEligibleLetter(w) == \E k \in DOMAIN w : w[k] \in EligibleLetters

\* the pre-filters of the first pass
PassesPreFilters(w) == Len(w) >= 3 /\ ~is_identifier(w) /\ ToLower(w) \notin whitelist

\* w meets the criteria of Layer 1: misspelled, past the pre-filters, with a
\* suggestion that differs from it by diacritics only
MeetsLayer1(w) ==
    /\ DictHas(misspellings, w)
    /\ PassesPreFilters(w)
    /\ Truthy(layer1_suggestion(w, DictGet(misspellings, w)))

\* the variants of w that the batch call reported as valid
ValidVariantsOf(w) == Range(generate_variants(w)) \cap valid_variants

\* w meets the criteria of Layer 2: misspelled, past the pre-filters, left
\* alone by Layer 1, with a variant the batch call reported as valid
MeetsLayer2(w) ==
    /\ DictHas(misspellings, w)
    /\ PassesPreFilters(w)
    /\ ~Truthy(layer1_suggestion(w, DictGet(misspellings, w)))
    /\ ValidVariantsOf(w) # {}

\* C1: when the scan is over, no two findings have the same lowercase word
\* form, and no finding of a form comes from a layer later than a layer whose
\* criteria a word of that form meets (Layer 1 before Layer 2 before Layer 3).
C1_OneFindingPerFormEarliestLayer ==
    pc = "exit" =>
        /\ \A j, k \in DOMAIN errors :
              j # k => ToLower(errors[j].word) # ToLower(errors[k].word)
        /\ \A k \in DOMAIN errors : \A w \in unique_words :
              ToLower(w) = ToLower(errors[k].word) =>
                  /\ errors[k].layer > 1 => ~MeetsLayer1(w)
                  /\ errors[k].layer > 2 => ~MeetsLayer2(w)

\* C2: the spell checker is invoked at most twice, the suggestion call first
\* and the batch call second; and the batch call is made only once the
\* suggestion call has answered and the loop of Layer 1 decisions has no
\* misspelling left.
C2_AtMostTwoCallsInOrder ==
    [][/\ calls' \in {<<>>, <<"check_text">>, <<"check_text", "batch_valid">>}
       /\ (calls' # calls /\ Len(calls') = 2) =>
              /\ calls = <<"check_text">>
              /\ oracle1.status # "none"
              /\ pc = "call2"
              /\ idx > Len(misspellings)]_vars

\* a scan that made both calls and ended
C2_BothCallsMade == pc = "exit" /\ calls = <<"check_text", "batch_valid">>

\* C4: main ends with exit code 0 or exit code 2, whatever the payload, the
\* file, the dictionaries and the spell checker.
C4_ExitZeroOrTwo == pc = "exit" => exit_code \in {0, 2}

\* C5: when the scan is over, every misspelled word that meets the criteria
\* of Layer 2 and whose lowercase form no other word's Layer 1 or Layer 2
\* finding has claimed has a Layer 2 finding, whose correction is one of its
\* valid variants with the fewest diacritics.
C5_Layer2FindingForEveryValidVariant ==
    pc = "exit" =>
        \A w \in DictKeys(misspellings) :
            (/\ MeetsLayer2(w)
             /\ ~\E j \in DOMAIN errors :
                    /\ errors[j].word # w
                    /\ errors[j].layer \in {1, 2}
                    /\ ToLower(errors[j].word) = ToLower(w))
            => \E j \in DOMAIN errors :
                  /\ errors[j].word = w
                  /\ errors[j].layer = 2
                  /\ errors[j].correction \in ValidVariantsOf(w)
                  /\ \A v \in ValidVariantsOf(w) :
                        count_diacritics(errors[j].correction) <= count_diacritics(v)

\* C7: no finding is ever about a word without a letter that takes a
\* diacritic.
C7_NoFindingWithoutEligibleLetter ==
    \A k \in DOMAIN errors : HasEligibleLetter(errors[k].word)

\* a scan that ended on a document with aaa, a word the spell checker
\* accepts and the ambiguity table has a correction for
C7_PlainWordScanned ==
    /\ pc = "exit"
    /\ aaa \in unique_words
    /\ ~DictHas(misspellings, aaa)
    /\ Truthy(layer3_ambiguity(aaa, amb_lookup, amb_skip, whitelist))

IsLayer3(e) == e.layer = 3

Layer3Findings == SelectSeq(errors, IsLayer3)

\* w meets the criteria of Layer 3: long enough, no identifier, with a letter
\* that takes a diacritic, accepted by the spell checker, not claimed by
\* Layer 1 or 2, and with a correction in the table that differs from it
Layer3Eligible(w) ==
    /\ Len(w) >= 3
    /\ ~is_identifier(w)
    /\ HasEligibleLetter(w)
    /\ ~DictHas(misspellings, w)
    /\ ~\E j \in DOMAIN errors :
          errors[j].layer \in {1, 2} /\ ToLower(errors[j].word) = ToLower(w)
    /\ LET correction == layer3_ambiguity(w, amb_lookup, amb_skip, whitelist)
       IN Truthy(correction) /\ ToLower(correction) # ToLower(w)

\* C10: Layer 3 never has more than 15 findings, each of medium confidence
\* and about a word that the spell checker did not flag and that meets the
\* criteria of Layer 3; they come in ascending order; and when the scan is
\* over, a word that meets the criteria and has no finding either shares its
\* lowercase form with an earlier word that has one, or comes after the
\* fifteenth finding.
C10_Layer3FirstFifteenInOrder ==
    LET found == Layer3Findings
    IN /\ Len(found) <= 15
       /\ \A k \in DOMAIN found :
             /\ found[k].confidence = "medium"
             /\ ~DictHas(misspellings, found[k].word)
             /\ Layer3Eligible(found[k].word)
       /\ \A k \in 1..(Len(found) - 1) : StrLess(found[k].word, found[k + 1].word)
       /\ pc = "exit" =>
             \A w \in unique_words :
                 (Layer3Eligible(w) /\ \A k \in DOMAIN found : found[k].word # w)
                 => \/ \E k \in DOMAIN found :
                          /\ ToLower(found[k].word) = ToLower(w)
                          /\ StrLess(found[k].word, w)
                    \/ Len(found) = 15 /\ StrLess(found[15].word, w)

\* a scan that ended with fifteen Layer 3 findings and a later word that
\* meets the criteria of Layer 3 left out
C10_BrakeHit ==
    /\ pc = "exit"
    /\ Len(Layer3Findings) = 15
    /\ \E w \in unique_words :
          Layer3Eligible(w) /\ StrLess(Layer3Findings[15].word, w)

\* C6: the second scan of the same file, with the same dictionaries and the
\* same answers of the spell checker, ends with the findings of the first.
C6_SecondScanSameFindings == (run = 2 /\ pc = "exit") => errors = first_errors

\* the number of positions of w that hold a letter that takes a diacritic
SubstitutablePositions(w) == Cardinality({k \in DOMAIN w : w[k] \in EligibleLetters})

\* C8: the list generate_variants returns never contains the word itself,
\* never has more than 64 entries, and is empty for a word with more than 6
\* substitutable positions and for a word with none.
C8_VariantsBounded ==
    (fn.op = "generate_variants" /\ fn.done) =>
        /\ \A k \in DOMAIN fn.res : fn.res[k] # fn.arg
        /\ Len(fn.res) <= 64
        /\ (SubstitutablePositions(fn.arg) > 6 \/ SubstitutablePositions(fn.arg) = 0)
              => fn.res = <<>>

\* generate_variants has answered for a word of seven substitutable letters
C8_SevenPositions ==
    /\ fn.op = "generate_variants"
    /\ fn.done
    /\ SubstitutablePositions(fn.arg) = 7
    /\ fn.res = <<>>

\* e is a whitelist entry that covers the lowercase word wl: the word itself,
\* or at least 5 characters long and followed in wl by at most 5 characters
Covers(e, wl) ==
    \/ e = wl
    \/ /\ Len(e) >= 5
       /\ \E n \in 0..5 : Len(wl) = Len(e) + n /\ \A k \in DOMAIN e : wl[k] = e[k]

\* C9: layer3_ambiguity returns no correction for a word that a whitelist
\* entry covers, and the correction of the table for a word in the table
\* that no entry covers: an entry followed by 6 or more characters, or an
\* entry shorter than 5 characters that is not the whole word, suppresses
\* nothing.
C9_WhitelistSuffixTolerance ==
    (fn.op = "layer3_ambiguity" /\ fn.done) =>
        LET wl == ToLower(fn.arg[1])
            lookup == fn.arg[2]
            wlist == fn.arg[4]
        IN IF \E e \in wlist : Covers(e, wl)
           THEN fn.res = None
           ELSE (DictHas(lookup, wl) /\ wl \notin fn.arg[3]) => fn.res = DictGet(lookup, wl)

\* layer3_ambiguity has answered with a correction for a word that is a
\* whitelist entry of 5 letters followed by 6 more
C9_SixMoreLetters ==
    /\ fn.op = "layer3_ambiguity"
    /\ fn.done
    /\ fn.arg[4] = {SubSeq(AmbBase, 1, 5)}
    /\ ToLower(fn.arg[1]) = SubSeq(AmbBase, 1, 11)
    /\ fn.res # None

\* C3: strip_non_prose returns a text with as many newline characters as the
\* text it was given.
C3_NewlineCountKept ==
    (fn.op = "strip_non_prose" /\ fn.done) => CountNL(fn.res) = CountNL(fn.arg)

====
